---- MODULE Spec2Model ----
(***************************************************************************)
(* A model of lib/parse.js of avsc: the schema parser with its registry    *)
(* and namespaces, the type nodes (primitive, array, map, enum, fixed,     *)
(* record, wrapped and unwrapped union) with their _check, _write and      *)
(* _read, and the top-level encode and decode.                             *)
(*                                                                         *)
(* JavaScript values, schemas and type nodes are records tagged by a kind. *)
(* The type nodes live on a heap (a sequence; a node's identity is its     *)
(* index), the registry maps names to heap indices.                        *)
(***************************************************************************)
EXTENDS Integers, Sequences, FiniteSets, TLC

VARIABLES
  heap,      \* the type nodes ever constructed; a node's identity is its index
  registry,  \* opts.registry: name -> index of a node
  nparse,    \* the number of parse calls made
  parsed,    \* the last parse call: its arguments and what it returned or threw
  last       \* the last encode or decode call: its arguments and its outcome

vars == <<heap, registry, nparse, parsed, last>>

(***************************************************************************)
(* JavaScript values.                                                      *)
(***************************************************************************)
Null == [k |-> "null"]
Undefined == [k |-> "undefined"]
Bool(b) == [k |-> "boolean", b |-> b]
Num(n) == [k |-> "number", n |-> n]
Str(s) == [k |-> "string", s |-> s]
Buf(bytes) == [k |-> "buffer", bytes |-> bytes]
Arr(items) == [k |-> "array", items |-> items]
Obj(keys, vals) == [k |-> "object", keys |-> keys, vals |-> vals]

\* typeof v
TypeOf(v) ==
  CASE v.k = "undefined" -> "undefined"
    [] v.k = "boolean" -> "boolean"
    [] v.k = "number" -> "number"
    [] v.k = "string" -> "string"
    [] OTHER -> "object"

\* Object.keys(v) of a value that is neither null nor undefined
Keys(v) ==
  CASE v.k = "object" -> v.keys
    [] v.k = "array" -> [i \in 1..Len(v.items) |-> ToString(i - 1)]
    [] v.k = "buffer" -> [i \in 1..Len(v.bytes) |-> ToString(i - 1)]
    [] v.k = "string" -> [i \in 1..Len(v.s) |-> ToString(i - 1)]
    [] OTHER -> <<>>

\* v[key] of a value that is neither null nor undefined
Get(v, key) ==
  LET ks == Keys(v)
      hit == {i \in 1..Len(ks) : ks[i] = key}
  IN IF hit = {} THEN Undefined
     ELSE LET i == CHOOSE j \in hit : TRUE
          IN CASE v.k = "object" -> v.vals[i]
               [] v.k = "array" -> v.items[i]
               [] v.k = "buffer" -> Num(v.bytes[i])
               [] OTHER -> Str(SubSeq(v.s, i, i))

\* obj[key] = val on a plain object
Put(o, key, val) ==
  LET hit == {i \in 1..Len(o.keys) : o.keys[i] = key}
  IN IF hit = {} THEN Obj(Append(o.keys, key), Append(o.vals, val))
     ELSE Obj(o.keys, [i \in 1..Len(o.vals) |-> IF i \in hit THEN val ELSE o.vals[i]])

\* s.indexOf('.') is not -1
HasDot(s) == \E i \in 1..Len(s) : SubSeq(s, i, i) = "."

(***************************************************************************)
(* Schemas: a string, a sequence (a union) or a mapping.  An attribute     *)
(* that a mapping lacks is the empty string (name, namespace).             *)
(***************************************************************************)
SRef(name) == [f |-> "string", ref |-> name]
SUnion(branches) == [f |-> "sequence", branches |-> branches]
SPrim(type, ns) == [f |-> "mapping", type |-> type, namespace |-> ns]
SArray(items, ns) == [f |-> "mapping", type |-> "array", namespace |-> ns, items |-> items]
SMap(values, ns) == [f |-> "mapping", type |-> "map", namespace |-> ns, values |-> values]
SEnum(name, ns, symbols) ==
  [f |-> "mapping", type |-> "enum", namespace |-> ns, name |-> name, symbols |-> symbols]
SFixed(name, ns, size) ==
  [f |-> "mapping", type |-> "fixed", namespace |-> ns, name |-> name, size |-> size]
SRecord(name, ns, fields) ==
  [f |-> "mapping", type |-> "record", namespace |-> ns, name |-> name, fields |-> fields]
\* a field of a record schema; dflt is Undefined when the field has no default
SField(name, type, dflt) == [name |-> name, type |-> type, dflt |-> dflt]

PRIMITIVES == <<"null", "boolean", "int", "long", "float", "double", "bytes", "string">>

IsPrimitive(s) == \E i \in 1..Len(PRIMITIVES) : PRIMITIVES[i] = s

(***************************************************************************)
(* Type nodes.                                                             *)
(***************************************************************************)
PrimitiveType(name) == [kind |-> "primitive", name |-> name]
\* a node whose constructor has not (or not yet) assigned its members
Blank(kind) == [kind |-> kind, built |-> FALSE]
\* a record whose constructor has set its name and not yet its fields
NamedBlank(kind, name) == [kind |-> kind, built |-> FALSE, name |-> name]

\* Type.createRegistry: the heap of the eight primitive nodes and their names
createRegistryHeap == [i \in 1..Len(PRIMITIVES) |-> PrimitiveType(PRIMITIVES[i])]
createRegistry == [n \in {PRIMITIVES[i] : i \in 1..Len(PRIMITIVES)} |->
                     CHOOSE i \in 1..Len(PRIMITIVES) : PRIMITIVES[i] = n]

\* registry[name] = id
RegPut(reg, name, id) == (name :> id) @@ reg

(***************************************************************************)
(* _check.  A check returns "true" or "false", or is "throw" when the      *)
(* JavaScript raises (a property read on null, Object.keys(null), the      *)
(* abstract _check of a node under construction).  Numbers of the model    *)
(* are integers.                                                           *)
(***************************************************************************)
B3(b) == IF b THEN "true" ELSE "false"

\* Array.prototype.every over results evaluated left to right
Every3(rs) ==
  LET bad == {i \in 1..Len(rs) : rs[i] # "true"}
  IN IF bad = {} THEN "true" ELSE rs[CHOOSE i \in bad : \A j \in bad : i <= j]

\* Array.prototype.some over results evaluated left to right
Some3(rs) ==
  LET hit == {i \in 1..Len(rs) : rs[i] # "false"}
  IN IF hit = {} THEN "false" ELSE rs[CHOOSE i \in hit : \A j \in hit : i <= j]

MinInt32 == -2147483647 - 1
MaxInt32 == 2147483647

\* o === (o | 0) for an integer o
IsInt32(n) == n >= MinInt32 /\ n <= MaxInt32

\* !o
Not(o) ==
  Bool(\/ o.k \in {"null", "undefined"}
       \/ (o.k = "boolean" /\ ~o.b)
       \/ (o.k = "number" /\ o.n = 0)
       \/ (o.k = "string" /\ o.s = ""))

PrimitiveCheck(name, o) ==
  CASE name = "null" -> o = Null
    [] name = "boolean" -> o # Not(o)
    [] name = "int" -> o.k = "number" /\ IsInt32(o.n)
    [] name = "long" -> o.k = "number"
    [] name = "float" -> o.k = "number"
    [] name = "double" -> o.k = "number"
    [] name = "string" -> o.k = "string"
    [] name = "bytes" -> o.k = "buffer"

\* indices[name] of a wrapped union: 0 when undefined, else the branch's position
IndexOf(names, name) ==
  LET hit == {i \in 1..Len(names) : names[i] = name}
  IN IF hit = {} THEN 0 ELSE CHOOSE i \in hit : \A j \in hit : j <= i

RECURSIVE Check(_, _, _)
Check(h, id, o) ==
  LET t == h[id] IN
  CASE t.kind = "primitive" -> B3(PrimitiveCheck(t.name, o))
    [] ~t.built -> "throw"
    [] t.kind = "enum" -> B3(o.k = "string" /\ IndexOf(t.symbols, o.s) # 0)
    [] t.kind = "fixed" -> B3(o.k = "buffer" /\ Len(o.bytes) = t.size)
    [] t.kind = "array" ->
         IF o.k # "array" THEN "false"
         ELSE Every3([i \in 1..Len(o.items) |-> Check(h, t.items, o.items[i])])
    [] t.kind = "map" ->
         IF TypeOf(o) # "object" \/ o.k = "array" THEN "false"
         ELSE IF o = Null THEN "throw"
         ELSE LET keys == Keys(o)
              IN Every3([i \in 1..Len(keys) |-> Check(h, t.values, Get(o, keys[i]))])
    [] t.kind = "record" ->
         IF TypeOf(o) # "object" THEN "false"
         ELSE Every3([i \in 1..Len(t.fields) |->
                LET fld == t.fields[i] IN
                IF o = Null THEN "throw"
                ELSE IF fld.dflt = Undefined THEN Check(h, fld.type, Get(o, fld.name))
                ELSE IF Get(o, fld.name) # Undefined
                     THEN Check(h, fld.type, Get(o, fld.name))
                     ELSE "true"])
    [] t.kind = "wrapped" ->
         IF TypeOf(o) # "object" THEN "false"
         ELSE IF o = Null THEN B3(IndexOf(t.names, "null") # 0)
         ELSE LET name == IF Keys(o) = <<>> THEN "undefined" ELSE Keys(o)[1]
                  index == IndexOf(t.names, name)
              IN IF index = 0 THEN "false" ELSE Check(h, t.types[index], Get(o, name))
    [] t.kind = "unwrapped" ->
         Some3([i \in 1..Len(t.types) |-> Check(h, t.types[i], o)])

\* Type.prototype.isValid
isValid(h, id, o) == Check(h, id, o)

(***************************************************************************)
(* parse.  The options object is shared by the whole walk: st is           *)
(* [heap, reg, ns, log], the heap, opts.registry, opts.namespace and a     *)
(* history of the defaults checked.  A parse returns [st, ok, id, err]:    *)
(* the state it leaves, and the node it returns (ok) or the message it     *)
(* throws.                                                                 *)
(***************************************************************************)
Returned(st, id) == [st |-> st, ok |-> TRUE, id |-> id, err |-> ""]
Thrown(st, err) == [st |-> st, ok |-> FALSE, id |-> 0, err |-> err]

\* new T(): a fresh object on the heap
New(st, kind) == [st EXCEPT !.heap = Append(st.heap, Blank(kind))]

getQualifiedName(schema, ns) ==
  LET name == schema.name
      nsp == IF schema.namespace # "" THEN schema.namespace ELSE ns
  IN IF name # "" /\ ~HasDot(name) /\ nsp # "" THEN nsp \o "." \o name ELSE name

getOpts(schema, st) ==
  [st EXCEPT !.ns = IF schema.f = "mapping" /\ schema.namespace # ""
                    THEN schema.namespace ELSE st.ns]

\* Type.prototype.getTypeName and its overrides; the base method returns an
\* Error object, which is no string and reads "Error: abstract" as a key
getTypeName(t) ==
  CASE t.kind = "primitive" -> t.name
    [] t.kind \in {"wrapped", "unwrapped"} -> "Error: abstract"
    [] OTHER -> t.kind

\* a slip: the kind of a named branch taken for its discriminator
BranchNameByKind(t) == getTypeName(t)

\* type.name || type.getTypeName()
BranchName(t) == IF t.kind \in {"enum", "fixed", "record"} THEN t.name ELSE getTypeName(t)

BranchNameIsString(t) == t.kind \notin {"wrapped", "unwrapped"}

\* the loop filling indices: the first branch whose name is already there
DuplicateAt(names) == {i \in 1..Len(names) : \E j \in 1..(i - 1) : names[j] = names[i]}

\* the characters of the model's strings, each one byte in UTF-8 and in 'binary'
Lower == "abcdefghijklmnopqrstuvwxyz"
Upper == "ABCDEFGHIJKLMNOPQRSTUVWXYZ"

PosIn(c, s) ==
  LET hit == {i \in 1..Len(s) : SubSeq(s, i, i) = c}
  IN IF hit = {} THEN 0 ELSE CHOOSE i \in hit : TRUE

\* c.charCodeAt(0)
CharCode(c) ==
  CASE PosIn(c, Lower) # 0 -> 96 + PosIn(c, Lower)
    [] PosIn(c, Upper) # 0 -> 64 + PosIn(c, Upper)
    [] c = "." -> 46
    [] c = "0" -> 48
    [] c = "1" -> 49

\* String.fromCharCode(b), "?" for a character outside the model's
CharOf(b) ==
  CASE b >= 97 /\ b <= 122 -> SubSeq(Lower, b - 96, b - 96)
    [] b >= 65 /\ b <= 90 -> SubSeq(Upper, b - 64, b - 64)
    [] b = 46 -> "."
    [] b = 48 -> "0"
    [] b = 49 -> "1"
    [] OTHER -> "?"

StringBytes(s) == [i \in 1..Len(s) |-> CharCode(SubSeq(s, i, i))]

RECURSIVE BytesString(_)
BytesString(bytes) ==
  IF bytes = <<>> THEN "" ELSE CharOf(Head(bytes)) \o BytesString(Tail(bytes))

\* new Buffer(value, 'binary'): the bytes of a string, n bytes for a number n
\* (their contents are never read), a TypeError for null and booleans
BinaryBuffer(v) ==
  CASE v.k = "string" -> Buf(StringBytes(v.s))
    [] v.k = "number" -> Buf([i \in 1..v.n |-> 0])
    [] OTHER -> [k |-> "TypeError"]

RECURSIVE Parse(_, _, _)
RECURSIVE ParseEach(_, _, _, _)
RECURSIVE ParseFields(_, _, _, _, _)

\* schema.map(function (o) { return parse(o, opts); }), left to right
ParseEach(schemas, st, unwrap, ids) ==
  IF Len(ids) = Len(schemas) THEN [st |-> st, ok |-> TRUE, ids |-> ids, err |-> ""]
  ELSE LET Then(r) ==
             IF r.ok THEN ParseEach(schemas, r.st, unwrap, Append(ids, r.id))
             ELSE [st |-> r.st, ok |-> FALSE, ids |-> ids, err |-> r.err]
       IN Then(Parse(schemas[Len(ids) + 1], st, unwrap))

UnionType(schema, st0, unwrap) ==
  LET st1 == New(st0, IF unwrap THEN "unwrapped" ELSE "wrapped")
      self == Len(st1.heap)
  IN IF schema.branches = <<>> THEN Thrown(st1, "empty union")
     ELSE LET Then(bs) ==
                IF ~bs.ok THEN Thrown(bs.st, bs.err)
                ELSE LET names == [i \in 1..Len(bs.ids) |-> BranchName(bs.st.heap[bs.ids[i]])]
                     IN IF DuplicateAt(names) # {} THEN Thrown(bs.st, "duplicate union name")
                        ELSE IF ~unwrap /\ \E i \in 1..Len(bs.ids) :
                                             ~BranchNameIsString(bs.st.heap[bs.ids[i]])
                        THEN Thrown(bs.st, "TypeError")
                        ELSE Returned([bs.st EXCEPT !.heap[self] =
                                         [kind |-> IF unwrap THEN "unwrapped" ELSE "wrapped",
                                          built |-> TRUE, types |-> bs.ids, names |-> names]],
                                      self)
          IN Then(ParseEach(schema.branches, getOpts(schema, st1), unwrap, <<>>))

EnumType(schema, st0) ==
  LET st1 == New(st0, "enum")
      self == Len(st1.heap)
  IN IF schema.name = "" THEN Thrown(st1, "missing enum name")
     ELSE IF schema.symbols = <<>> THEN Thrown(st1, "invalid enum symbols")
     ELSE LET st2 == getOpts(schema, st1)
              name == getQualifiedName(schema, st2.ns)
          IN Returned([st2 EXCEPT !.reg = RegPut(st2.reg, name, self),
                                  !.heap[self] = [kind |-> "enum", built |-> TRUE,
                                                  name |-> name, symbols |-> schema.symbols]],
                      self)

FixedType(schema, st0) ==
  LET st1 == New(st0, "fixed")
      self == Len(st1.heap)
  IN IF schema.name = "" THEN Thrown(st1, "missing fixed name")
     ELSE IF schema.size < 1 THEN Thrown(st1, "invalid fixed size")
     ELSE LET st2 == getOpts(schema, st1)
              name == getQualifiedName(schema, st2.ns)
          IN Returned([st2 EXCEPT !.reg = RegPut(st2.reg, name, self),
                                  !.heap[self] = [kind |-> "fixed", built |-> TRUE,
                                                  name |-> name, size |-> schema.size]],
                      self)

MapType(schema, st0, unwrap) ==
  LET st1 == New(st0, "map")
      self == Len(st1.heap)
  IN IF schema.values = SRef("") THEN Thrown(st1, "missing map values")
     ELSE LET Then(r) ==
                IF ~r.ok THEN r
                ELSE Returned([r.st EXCEPT !.heap[self] =
                                 [kind |-> "map", built |-> TRUE, values |-> r.id]], self)
          IN Then(Parse(schema.values, getOpts(schema, st1), unwrap))

ArrayType(schema, st0, unwrap) ==
  LET st1 == New(st0, "array")
      self == Len(st1.heap)
  IN IF schema.items = SRef("") THEN Thrown(st1, "missing array items")
     ELSE LET Then(r) ==
                IF ~r.ok THEN r
                ELSE Returned([r.st EXCEPT !.heap[self] =
                                 [kind |-> "array", built |-> TRUE, items |-> r.id]], self)
          IN Then(Parse(schema.items, getOpts(schema, st1), unwrap))

\* the value kept as a field's default: a Buffer for a fixed or bytes field
DefaultValue(t, value) ==
  IF value # Undefined /\ (t.kind = "fixed" \/ getTypeName(t) = "bytes")
  THEN BinaryBuffer(value) ELSE value

\* a slip: a union field's default checked against the union
DefaultCheckWhole(h, id, value) == isValid(h, id, value)

\* the validity of a default: against the first branch for a union field
DefaultCheck(h, id, value) ==
  IF h[id].kind \in {"wrapped", "unwrapped"}
  THEN isValid(h, h[id].types[1], value)
  ELSE isValid(h, id, value)

\* history: the defaults whose validity the walk has checked, as
\* [record, field, type, value]
Checked(st, self, name, type, value) ==
  [st EXCEPT !.log = Append(st.log, [record |-> self, field |-> name,
                                     type |-> type, value |-> value])]

\* schema.fields.map(function (field) { ... }), left to right
ParseFields(fields, st, unwrap, self, done) ==
  IF Len(done) = Len(fields) THEN [st |-> st, ok |-> TRUE, fields |-> done, err |-> ""]
  ELSE LET field == fields[Len(done) + 1]
           Verdict(r, value, valid, st1) ==
             IF valid = "throw"
             THEN [st |-> st1, ok |-> FALSE, fields |-> done, err |-> "Error"]
             ELSE IF valid = "false"
             THEN [st |-> st1, ok |-> FALSE, fields |-> done, err |-> "invalid default"]
             ELSE ParseFields(fields, st1, unwrap, self,
                    Append(done, [name |-> field.name, type |-> r.id, dflt |-> value]))
           WithDefault(r, value) ==
             Verdict(r, value,
                     IF value = Undefined THEN "true"
                     ELSE IF value.k = "TypeError" THEN "throw"
                     ELSE DefaultCheck(r.st.heap, r.id, value),
                     IF value = Undefined \/ value.k = "TypeError" THEN r.st
                     ELSE Checked(r.st, self, field.name, r.id, value))
           Then(r) ==
             IF ~r.ok THEN [st |-> r.st, ok |-> FALSE, fields |-> done, err |-> r.err]
             ELSE WithDefault(r, DefaultValue(r.st.heap[r.id], field.dflt))
       IN Then(Parse(field.type, st, unwrap))

\* generateWriter throws on a bytes or fixed field that has a default
WriterUnsupported(h, fields) ==
  \E i \in 1..Len(fields) :
     /\ fields[i].dflt # Undefined
     /\ getTypeName(h[fields[i].type]) \in {"bytes", "fixed"}

\* generateReader and generateWriter take field.type._read and field.type._write
\* as they are when the record is built: the abstract methods of Type.prototype
\* when the field's type is a record still under construction
Generated(h, fields) ==
  [i \in 1..Len(fields) |->
     [name |-> fields[i].name, type |-> fields[i].type, dflt |-> fields[i].dflt,
      abstract |-> h[fields[i].type].kind # "primitive" /\ ~h[fields[i].type].built]]

\* a slip: the record registered once its fields are parsed
RecordTypeLate(schema, st0, unwrap) ==
  LET st1 == New(st0, "record")
      self == Len(st1.heap)
  IN IF schema.name = "" THEN Thrown(st1, "missing record name")
     ELSE LET st2 == getOpts(schema, st1)
              name == getQualifiedName(schema, st2.ns)
              st3 == [st2 EXCEPT !.heap[self] = NamedBlank("record", name)]
              Then(fs) ==
                IF ~fs.ok THEN Thrown(fs.st, fs.err)
                ELSE IF WriterUnsupported(fs.st.heap, fs.fields)
                THEN Thrown(fs.st, "bytes and fixed defaults are not supported yet")
                ELSE Returned([fs.st EXCEPT !.reg = RegPut(fs.st.reg, name, self),
                                            !.heap[self] =
                                 [kind |-> "record", built |-> TRUE, name |-> name,
                                  fields |-> Generated(fs.st.heap, fs.fields)]], self)
          IN Then(ParseFields(schema.fields, st3, unwrap, self, <<>>))

RecordType(schema, st0, unwrap) ==
  LET st1 == New(st0, "record")
      self == Len(st1.heap)
  IN IF schema.name = "" THEN Thrown(st1, "missing record name")
     ELSE LET st2 == getOpts(schema, st1)
              name == getQualifiedName(schema, st2.ns)
              st3 == [st2 EXCEPT !.reg = RegPut(st2.reg, name, self),
                                 !.heap[self] = NamedBlank("record", name)]
              Then(fs) ==
                IF ~fs.ok THEN Thrown(fs.st, fs.err)
                ELSE IF WriterUnsupported(fs.st.heap, fs.fields)
                THEN Thrown(fs.st, "bytes and fixed defaults are not supported yet")
                ELSE Returned([fs.st EXCEPT !.heap[self] =
                                 [kind |-> "record", built |-> TRUE, name |-> name,
                                  fields |-> Generated(fs.st.heap, fs.fields)]], self)
          IN Then(ParseFields(schema.fields, st3, unwrap, self, <<>>))

\* a slip: a primitive name qualified like any other
ResolvedNameQualifyingAll(ref, ns) ==
  IF ns # "" /\ ~HasDot(ref) THEN ns \o "." \o ref ELSE ref

\* the name a string schema is looked up under
ResolvedName(ref, ns) ==
  IF ns # "" /\ ~HasDot(ref) /\ ~IsPrimitive(ref) THEN ns \o "." \o ref ELSE ref

Parse(schema, st0, unwrap) ==
  LET st == getOpts(schema, st0) IN
  CASE schema.f = "string" ->
         LET name == ResolvedName(schema.ref, st.ns)
         IN IF name \in DOMAIN st.reg THEN Returned(st, st.reg[name])
            ELSE Thrown(st, "missing name")
    [] schema.f = "sequence" -> UnionType(schema, st, unwrap)
    [] schema.f = "mapping" ->
         CASE IsPrimitive(schema.type) -> Returned(st, st.reg[schema.type])
           [] schema.type = "array" -> ArrayType(schema, st, unwrap)
           [] schema.type = "enum" -> EnumType(schema, st)
           [] schema.type = "fixed" -> FixedType(schema, st)
           [] schema.type = "map" -> MapType(schema, st, unwrap)
           [] schema.type = "record" -> RecordType(schema, st, unwrap)
           [] OTHER -> Thrown(st, "unknown type")

(***************************************************************************)
(* The tap (lib/tap.js), from its description: zig-zag base-128 varints,   *)
(* length-prefixed strings and bytes, raw fixed bytes, one-byte booleans,  *)
(* block-framed arrays and maps.  A write is the bytes it appends; a write *)
(* past the end of the buffer still advances the position.  A read is      *)
(* [kind, val, pos]; kind is "ok", "truncated" when it reads past the end  *)
(* of the buffer, or "unspecified" when the description does not say what  *)
(* the tap does (a value that is not of the tap operation's kind, a        *)
(* negative length, a character outside the model's).                      *)
(***************************************************************************)
ZigZag(n) == IF n >= 0 THEN 2 * n ELSE -2 * n - 1

UnZigZag(u) == IF u % 2 = 0 THEN u \div 2 ELSE -((u + 1) \div 2)

RECURSIVE Varint(_)
Varint(u) == IF u < 128 THEN <<u>> ELSE <<128 + (u % 128)>> \o Varint(u \div 128)

writeLong(n) == Varint(ZigZag(n))

Ok(bytes) == [kind |-> "ok", bytes |-> bytes]
Throw(err) == [kind |-> "throw", err |-> err]
Unspecified == [kind |-> "unspecified"]

writeString(s) == writeLong(Len(s)) \o StringBytes(s)

\* Tap.prototype['write' + capitalize(name)]
TapWrite(name, o) ==
  CASE name = "null" -> Ok(<<>>)
    [] name = "boolean" /\ o.k = "boolean" -> Ok(IF o.b THEN <<1>> ELSE <<0>>)
    [] name \in {"int", "long"} /\ o.k = "number" -> Ok(writeLong(o.n))
    [] name = "string" /\ o.k = "string" -> Ok(writeString(o.s))
    [] name = "bytes" /\ o.k = "buffer" -> Ok(writeLong(Len(o.bytes)) \o o.bytes)
    [] OTHER -> Unspecified

writeFixed(o, size) ==
  IF o.k = "buffer" /\ Len(o.bytes) = size THEN Ok(o.bytes) ELSE Unspecified

\* the writes of a sequence of parts in order: the first that fails, else all bytes
RECURSIVE Concat(_)
Concat(parts) == IF parts = <<>> THEN <<>> ELSE Head(parts).bytes \o Concat(Tail(parts))

InOrder(parts) ==
  LET bad == {i \in 1..Len(parts) : parts[i].kind # "ok"}
  IN IF bad = {} THEN Ok(Concat(parts))
     ELSE parts[CHOOSE i \in bad : \A j \in bad : i <= j]

\* writeArray and writeMap: one block [count, items] when there are items, then 0
writeBlock(items) ==
  IF items = <<>> THEN Ok(writeLong(0))
  ELSE InOrder(<<Ok(writeLong(Len(items)))>> \o items \o <<Ok(writeLong(0))>>)

ReadOk(val, pos) == [kind |-> "ok", val |-> val, pos |-> pos]
Truncated == [kind |-> "truncated"]

\* a base-128 varint at offset pos
RECURSIVE readVarint(_, _)
readVarint(buf, pos) ==
  IF pos >= Len(buf) THEN Truncated
  ELSE LET b == buf[pos + 1] IN
       IF b < 128 THEN ReadOk(b, pos + 1)
       ELSE LET Then(r) == IF r.kind # "ok" THEN r
                           ELSE ReadOk((b % 128) + 128 * r.val, r.pos)
            IN Then(readVarint(buf, pos + 1))

readLong(buf, pos) ==
  LET Then(r) == IF r.kind # "ok" THEN r ELSE ReadOk(UnZigZag(r.val), r.pos)
  IN Then(readVarint(buf, pos))

readRaw(buf, pos, len) ==
  IF len < 0 THEN Unspecified
  ELSE IF pos + len > Len(buf) THEN Truncated
  ELSE ReadOk(SubSeq(buf, pos + 1, pos + len), pos + len)

readBytes(buf, pos) ==
  LET Then(n) == IF n.kind # "ok" THEN n ELSE readRaw(buf, n.pos, n.val)
  IN Then(readLong(buf, pos))

readString(buf, pos) ==
  LET Then(r) ==
        IF r.kind # "ok" THEN r
        ELSE IF \E i \in 1..Len(r.val) : CharOf(r.val[i]) = "?" THEN Unspecified
        ELSE ReadOk(BytesString(r.val), r.pos)
  IN Then(readBytes(buf, pos))

\* Tap.prototype['read' + capitalize(name)]; a value is a JavaScript value
TapRead(name, buf, pos) ==
  CASE name = "null" -> ReadOk(Null, pos)
    [] name = "boolean" ->
         IF pos >= Len(buf) THEN Truncated
         ELSE IF buf[pos + 1] \notin {0, 1} THEN Unspecified
         ELSE ReadOk(Bool(buf[pos + 1] = 1), pos + 1)
    [] name \in {"int", "long"} ->
         LET Then(r) == IF r.kind # "ok" THEN r ELSE ReadOk(Num(r.val), r.pos)
         IN Then(readLong(buf, pos))
    [] name = "string" ->
         LET Then(r) == IF r.kind # "ok" THEN r ELSE ReadOk(Str(r.val), r.pos)
         IN Then(readString(buf, pos))
    [] name = "bytes" ->
         LET Then(r) == IF r.kind # "ok" THEN r ELSE ReadOk(Buf(r.val), r.pos)
         IN Then(readBytes(buf, pos))
    [] OTHER -> Unspecified

readFixed(buf, pos, size) ==
  LET Then(r) == IF r.kind # "ok" THEN r ELSE ReadOk(Buf(r.val), r.pos)
  IN Then(readRaw(buf, pos, size))

\* Tap.prototype.isValid
TapIsValid(buf, pos) == pos <= Len(buf)

(***************************************************************************)
(* _write and _read of the type nodes.                                     *)
(***************************************************************************)
\* a value used as a property key: String(o)
RECURSIVE PropertyKey(_)
RECURSIVE Join(_)
Join(items) ==
  IF items = <<>> THEN ""
  ELSE LET h == IF Head(items).k \in {"null", "undefined"} THEN ""
                ELSE PropertyKey(Head(items))
       IN IF Len(items) = 1 THEN h ELSE h \o "," \o Join(Tail(items))

PropertyKey(o) ==
  CASE o.k = "string" -> o.s
    [] o.k = "number" -> ToString(o.n)
    [] o.k = "boolean" -> IF o.b THEN "true" ELSE "false"
    [] o.k = "null" -> "null"
    [] o.k = "undefined" -> "undefined"
    [] o.k = "array" -> Join(o.items)
    [] o.k = "buffer" -> BytesString(o.bytes)
    [] o.k = "object" -> "[object Object]"

\* the value of the literal JSON.stringify(value) that generateWriter embeds
RECURSIVE JSONValue(_)
JSONValue(v) ==
  CASE v.k = "array" ->
         Arr([i \in 1..Len(v.items) |->
                IF v.items[i] = Undefined THEN Null ELSE JSONValue(v.items[i])])
    [] v.k = "object" ->
         LET keep == SelectSeq([i \in 1..Len(v.keys) |-> i], LAMBDA i : v.vals[i] # Undefined)
         IN Obj([j \in 1..Len(keep) |-> v.keys[keep[j]]],
                [j \in 1..Len(keep) |-> JSONValue(v.vals[keep[j]])])
    [] v.k = "buffer" ->
         Obj(<<"type", "data">>,
             <<Str("Buffer"), Arr([i \in 1..Len(v.bytes) |-> Num(v.bytes[i])])>>)
    [] OTHER -> v

\* the value generateWriter's code writes for a field
FieldValue(fld, o) ==
  IF fld.dflt # Undefined /\ Get(o, fld.name) = Undefined
  THEN JSONValue(fld.dflt) ELSE Get(o, fld.name)

RECURSIVE Write(_, _, _)
Write(h, id, o) ==
  LET t == h[id] IN
  CASE t.kind = "primitive" -> TapWrite(t.name, o)
    [] ~t.built -> Throw("abstract")
    [] t.kind = "enum" ->
         LET index == IndexOf(t.symbols, PropertyKey(o))
         IN IF index = 0 THEN Throw("invalid enum value") ELSE Ok(writeLong(index - 1))
    [] t.kind = "fixed" -> writeFixed(o, t.size)
    [] t.kind = "array" ->
         IF o.k # "array" THEN Unspecified
         ELSE writeBlock([i \in 1..Len(o.items) |-> Write(h, t.items, o.items[i])])
    [] t.kind = "map" ->
         IF o.k # "object" THEN Unspecified
         ELSE writeBlock([i \in 1..Len(o.keys) |->
                InOrder(<<Ok(writeString(o.keys[i])), Write(h, t.values, o.vals[i])>>)])
    [] t.kind = "record" ->
         IF t.fields = <<>> THEN Ok(<<>>)
         ELSE IF o.k \in {"null", "undefined"} THEN Throw("TypeError")
         ELSE InOrder([i \in 1..Len(t.fields) |->
                         IF t.fields[i].abstract THEN Throw("abstract")
                         ELSE Write(h, t.fields[i].type, FieldValue(t.fields[i], o))])
    [] t.kind = "wrapped" ->
         IF TypeOf(o) # "object" THEN Throw("invalid union")
         ELSE LET name == IF o = Null THEN "null"
                          ELSE IF Keys(o) = <<>> THEN "undefined" ELSE Keys(o)[1]
                  index == IndexOf(t.names, name)
              IN IF index = 0 THEN Throw("no such name in union")
                 ELSE InOrder(<<Ok(writeLong(index - 1)),
                                Write(h, t.types[index],
                                      IF o = Null THEN Null ELSE Get(o, name))>>)
    [] t.kind = "unwrapped" ->
         LET Then(cs) ==
               LET hit == {i \in 1..Len(cs) : cs[i] # "false"}
               IN IF hit = {} THEN Throw("invalid union value")
                  ELSE LET i == CHOOSE i \in hit : \A j \in hit : i <= j
                       IN IF cs[i] = "throw" THEN Throw("TypeError")
                          ELSE InOrder(<<Ok(writeLong(i - 1)), Write(h, t.types[i], o)>>)
         IN Then([i \in 1..Len(t.types) |-> Check(h, t.types[i], o)])

RECURSIVE Read(_, _, _, _)
RECURSIVE ReadFields(_, _, _, _, _)
RECURSIVE ReadItems(_, _, _, _, _, _)
RECURSIVE ReadPairs(_, _, _, _, _, _)
RECURSIVE ReadBlocks(_, _, _, _, _)

\* the arguments of new Class(r0.call(this), r1.call(this), ...), left to right
ReadFields(h, fields, buf, pos, vals) ==
  IF Len(vals) = Len(fields)
  THEN ReadOk(Obj([i \in 1..Len(fields) |-> fields[i].name], vals), pos)
  ELSE LET Then(r) ==
             IF r.kind # "ok" THEN r
             ELSE ReadFields(h, fields, buf, r.pos, Append(vals, r.val))
       IN Then(IF fields[Len(vals) + 1].abstract THEN Throw("abstract")
               ELSE Read(h, fields[Len(vals) + 1].type, buf, pos))

\* n items of a block of an array
ReadItems(h, id, buf, pos, n, acc) ==
  IF n = 0 THEN ReadOk(acc, pos)
  ELSE LET Then(r) ==
             IF r.kind # "ok" THEN r
             ELSE ReadItems(h, id, buf, r.pos, n - 1, Arr(Append(acc.items, r.val)))
       IN Then(Read(h, id, buf, pos))

\* n [key, value] pairs of a block of a map
ReadPairs(h, id, buf, pos, n, acc) ==
  IF n = 0 THEN ReadOk(acc, pos)
  ELSE LET Value(key, r) ==
             IF r.kind # "ok" THEN r
             ELSE ReadPairs(h, id, buf, r.pos, n - 1, Put(acc, key.val, r.val))
           Then(key) ==
             IF key.kind # "ok" THEN key ELSE Value(key, Read(h, id, buf, key.pos))
       IN Then(readString(buf, pos))

\* readArray and readMap: blocks until a count of 0; a negative count is
\* followed by the block's size in bytes
ReadBlocks(h, id, buf, pos, acc) ==
  LET Next1(r) == IF r.kind # "ok" THEN r ELSE ReadBlocks(h, id, buf, r.pos, r.val)
      Block(n, size) ==
        IF size.kind # "ok" THEN size
        ELSE Next1(IF acc.k = "array" THEN ReadItems(h, id, buf, size.pos, n, acc)
                   ELSE ReadPairs(h, id, buf, size.pos, n, acc))
      Then(c) ==
        IF c.kind # "ok" THEN c
        ELSE IF c.val = 0 THEN ReadOk(acc, c.pos)
        ELSE Block(IF c.val < 0 THEN -c.val ELSE c.val,
                   IF c.val < 0 THEN readLong(buf, c.pos) ELSE ReadOk(0, c.pos))
  IN Then(readLong(buf, pos))

Read(h, id, buf, pos) ==
  LET t == h[id] IN
  CASE t.kind = "primitive" -> TapRead(t.name, buf, pos)
    [] ~t.built -> Throw("abstract")
    [] t.kind = "enum" ->
         LET Then(r) ==
               IF r.kind # "ok" THEN r
               ELSE IF r.val >= 0 /\ r.val < Len(t.symbols)
               THEN ReadOk(Str(t.symbols[r.val + 1]), r.pos)
               ELSE ReadOk(Undefined, r.pos)
         IN Then(readLong(buf, pos))
    [] t.kind = "fixed" -> readFixed(buf, pos, t.size)
    [] t.kind = "array" -> ReadBlocks(h, t.items, buf, pos, Arr(<<>>))
    [] t.kind = "map" -> ReadBlocks(h, t.values, buf, pos, Obj(<<>>, <<>>))
    [] t.kind = "record" -> ReadFields(h, t.fields, buf, pos, <<>>)
    [] t.kind = "wrapped" ->
         LET Wrap(r, b) ==
               IF b.kind # "ok" THEN b
               ELSE ReadOk(Obj(<<t.names[r.val + 1]>>, <<b.val>>), b.pos)
             Then(r) ==
               IF r.kind # "ok" THEN r
               ELSE IF r.val >= 0 /\ r.val < Len(t.types) /\ t.names[r.val + 1] # "null"
               THEN Wrap(r, Read(h, t.types[r.val + 1], buf, r.pos))
               ELSE ReadOk(Null, r.pos)
         IN Then(readLong(buf, pos))
    [] t.kind = "unwrapped" ->
         LET Then(r) ==
               IF r.kind # "ok" THEN r
               ELSE IF r.val >= 0 /\ r.val < Len(t.types)
               THEN Read(h, t.types[r.val + 1], buf, r.pos)
               ELSE Throw("TypeError")
         IN Then(readLong(buf, pos))

(***************************************************************************)
(* Type.prototype.encode and Type.prototype.decode.                        *)
(***************************************************************************)
DefaultSize == 1024

Min(a, b) == IF a < b THEN a ELSE b

\* !tap.isValid: isValid is a method of the tap (decode calls it), and the
\* negation of a function object is false whatever the position
TapOverflowed(size, pos) == FALSE

\* a slip: the buffer allocated and the write done before the validity check
EncodeCheckingLate(h, id, obj, size, unsafe) ==
  LET once == [validated |-> TRUE, buffers |-> 1, writes |-> 1, bytes |-> <<>>]
      Then(w) ==
        IF w.kind # "ok" THEN once @@ w
        ELSE IF ~unsafe /\ isValid(h, id, obj) # "true" THEN once @@ Throw("invalid object")
        ELSE [kind |-> "ok", validated |-> TRUE, buffers |-> 1, writes |-> 1,
              bytes |-> SubSeq(w.bytes, 1,
                               Min(Len(w.bytes), IF size = 0 THEN DefaultSize ELSE size))]
  IN Then(Write(h, id, obj))

\* the outcome of encode(obj, {size: size, unsafe: unsafe}); size 0 is no size.
\* validated: isValid was called; buffers: Buffers allocated; writes: calls of
\* the node's _write
Encode(h, id, obj, size, unsafe) ==
  LET none == [validated |-> ~unsafe, buffers |-> 0, writes |-> 0, bytes |-> <<>>]
      once == [validated |-> ~unsafe, buffers |-> 1, writes |-> 1, bytes |-> <<>>]
      sz == IF size = 0 THEN DefaultSize ELSE size
      Written(w) ==
        IF w.kind = "throw" THEN once @@ w
        ELSE IF w.kind = "unspecified" THEN once @@ w
        ELSE IF TapOverflowed(sz, Len(w.bytes))
             THEN [kind |-> "ok", validated |-> ~unsafe, buffers |-> 2, writes |-> 2,
                   bytes |-> w.bytes]
             ELSE [kind |-> "ok", validated |-> ~unsafe, buffers |-> 1, writes |-> 1,
                   bytes |-> SubSeq(w.bytes, 1, Min(Len(w.bytes), sz))]
      Then(valid) ==
        IF valid = "throw" THEN none @@ Throw("TypeError")
        ELSE IF valid = "false" THEN none @@ Throw("invalid object")
        ELSE Written(Write(h, id, obj))
  IN Then(IF unsafe THEN "true" ELSE isValid(h, id, obj))

\* the outcome of decode(buf)
Decode(h, id, buf) ==
  LET Then(r) ==
        IF r.kind = "truncated" THEN Throw("truncated buffer")
        ELSE IF r.kind = "ok" /\ ~TapIsValid(buf, r.pos) THEN Throw("truncated buffer")
        ELSE IF r.kind = "ok" THEN [kind |-> "ok", val |-> r.val]
        ELSE r
  IN Then(Read(h, id, buf, 0))

(***************************************************************************)
(* The calls.                                                              *)
(***************************************************************************)
NoParse == [called |-> FALSE]
NoCall == [op |-> "none"]

Init ==
  /\ heap = createRegistryHeap
  /\ registry = createRegistry
  /\ nparse = 0
  /\ parsed = NoParse
  /\ last = NoCall

\* parse(schema, {registry: registry, namespace: ns, unwrapUnions: unwrap})
ParseCall(schema, ns, unwrap) ==
  LET Then(r) ==
        /\ heap' = r.st.heap
        /\ registry' = r.st.reg
        /\ nparse' = nparse + 1
        /\ parsed' = [called |-> TRUE, schema |-> schema, ns |-> ns, unwrap |-> unwrap,
                      ok |-> r.ok, id |-> r.id, err |-> r.err, nsAfter |-> r.st.ns,
                      before |-> registry, defaults |-> r.st.log]
        /\ last' = NoCall
  IN Then(Parse(schema, [heap |-> heap, reg |-> registry, ns |-> ns, log |-> <<>>], unwrap))

\* type.encode(obj, {size: size, unsafe: unsafe}) on the type parse returned.
\* encode and decode leave the type as it is, so the one call after the build
\* shows every outcome a later call can have
EncodeCall(obj, size, unsafe) ==
  /\ parsed.called /\ parsed.ok /\ last = NoCall
  /\ last' = [op |-> "encode", obj |-> obj, size |-> size, unsafe |-> unsafe,
              out |-> Encode(heap, parsed.id, obj, size, unsafe)]
  /\ UNCHANGED <<heap, registry, nparse, parsed>>

\* type.decode(buf) on the type parse returned
DecodeCall(buf) ==
  /\ parsed.called /\ parsed.ok /\ last = NoCall
  /\ last' = [op |-> "decode", buf |-> buf, out |-> Decode(heap, parsed.id, buf)]
  /\ UNCHANGED <<heap, registry, nparse, parsed>>

(***************************************************************************)
(* The inputs of the calls.                                                *)
(***************************************************************************)
MaxSize == 1
MaxInput == 2
MaxParses == 2

Namespaces == {"", "ns"}

IntS == SRef("int")
StringS == SRef("string")
NullS == SRef("null")
EnumE == SEnum("E", "", <<"A", "B">>)
FixedF == SFixed("F", "", 1)
RecordP == SRecord("P", "", <<SField("a", IntS, Undefined)>>)
RecordQ == SRecord("Q", "ns", <<>>)

Leaves == {NullS, IntS, StringS, SRef("boolean"), SRef("long"), SRef("bytes")}

Simple ==
  Leaves \cup {SPrim("int", ""), EnumE, SEnum("E", "ns", <<"A">>), FixedF,
               SFixed("F", "", 0), SEnum("", "", <<"A">>), SEnum("E", "", <<>>),
               SRef("R"), SRef("ns.R"), SPrim("text", "")}

Containers ==
  {SArray(x, "") : x \in {IntS, StringS, NullS, EnumE, SUnion(<<NullS, IntS>>)}}
  \cup {SMap(x, "") : x \in {IntS, StringS, SUnion(<<NullS, StringS>>)}}
  \cup {SArray(SRef(""), ""), SMap(SRef(""), "")}

\* branches: primitives, named types (two of them named E), two arrays, a map
Branches ==
  {NullS, IntS, StringS, EnumE, FixedF, SFixed("E", "", 1), RecordP, RecordQ,
   SArray(IntS, ""), SArray(StringS, ""), SMap(IntS, "")}

Unions ==
  {SUnion(<<>>)} \cup {SUnion(<<x>>) : x \in Branches}
  \cup {SUnion(<<x, y>>) : x, y \in Branches}
  \cup {SUnion(<<NullS, IntS, StringS>>), SUnion(<<IntS, StringS, IntS>>),
        SUnion(<<SUnion(<<IntS>>), StringS>>), SUnion(<<SUnion(<<IntS>>), SUnion(<<StringS>>)>>)}

\* the types of the fields of the records named R, which "R" refers to
FieldTypes ==
  {IntS, StringS, NullS, SRef("bytes"), EnumE, FixedF, SRef("R"),
   SUnion(<<NullS, IntS>>), SUnion(<<IntS, NullS>>), SUnion(<<StringS, IntS>>),
   SUnion(<<NullS, SRef("R")>>), SArray(SRef("R"), ""), SMap(SRef("R"), ""),
   SArray(IntS, "")}

Defaults == {Undefined, Null, Num(1), Str("a"), Str("A"), Arr(<<>>)}

Records ==
  {SRecord("R", "", <<>>), SRecord("", "", <<>>)}
  \cup {SRecord("R", ns, <<SField("a", t, d)>>) :
          ns \in {""}, t \in FieldTypes, d \in Defaults}
  \cup {SRecord("R", "ns", <<SField("a", t, Undefined)>>) :
          t \in {IntS, SRef("R"), SUnion(<<NullS, SRef("R")>>)}}
  \cup {SRecord("R", "", <<SField("a", ta, da), SField("b", tb, db)>>) :
          ta \in {IntS, SUnion(<<NullS, IntS>>)}, da \in {Undefined, Num(1)},
          tb \in {StringS, SUnion(<<IntS, NullS>>), SRef("R")}, db \in {Undefined, Num(1)}}
  \cup {SRecord("R", "", <<SField("a", RecordQ, Undefined), SField("b", t, Undefined)>>) :
          t \in {EnumE, SRef("Q")}}

Schemas == Simple \cup Containers \cup Unions \cup Records

Atoms ==
  {Null, Undefined, Bool(TRUE), Num(1), Num(-1), Num(64), Str("a"), Str("A"), Buf(<<7>>)}

Few == {Null, Num(1), Str("a")}

Values ==
  Atoms
  \cup {Arr(<<>>), Arr(<<Num(1), Num(64)>>), Arr(<<Num(1), Str("a")>>)}
  \cup {Arr(<<x>>) : x \in Atoms}
  \cup {Obj(<<>>, <<>>)}
  \cup {Obj(<<key>>, <<x>>) : key \in {"a", "b", "int", "string", "P", "E"}, x \in Atoms}
  \cup {Obj(keys, <<x, y>>) :
          keys \in {<<"a", "b">>, <<"int", "string">>, <<"string", "int">>},
          x \in Few, y \in Few}
  \cup {Obj(<<key>>, <<x>>) :
          key \in {"a", "P"},
          x \in {Obj(<<>>, <<>>), Obj(<<"a">>, <<Num(1)>>), Obj(<<"a">>, <<Null>>),
                 Obj(<<"int">>, <<Num(1)>>), Arr(<<Obj(<<"a">>, <<Num(1)>>)>>)}}

\* opts.size: 0 for none
Sizes == 0..MaxSize

\* the bytes of the buffers decoded: small counts, indices and lengths, and
\* the letter a, which ends a buffer (as a count it stands for 49 items)
InputBytes == {0, 1, 2, 3, 4}
Letters == {97}

RECURSIVE SeqsUpTo(_, _)
SeqsUpTo(S, n) ==
  IF n = 0 THEN {<<>>}
  ELSE LET shorter == SeqsUpTo(S, n - 1)
       IN shorter \cup {Append(q, x) : q \in {p \in shorter : Len(p) = n - 1}, x \in S}

Inputs ==
  SeqsUpTo(InputBytes, MaxInput)
    \cup {Append(q, x) : q \in SeqsUpTo(InputBytes, MaxInput - 1), x \in Letters}

(***************************************************************************)
(* Spec: one type is built, then encoded with and decoded from.            *)
(* ParseSpec: parse calls that share a registry.                           *)
(***************************************************************************)
Build == /\ nparse = 0
         /\ \E schema \in Schemas, unwrap \in BOOLEAN : ParseCall(schema, "", unwrap)

DoEncode == \E obj \in Values, size \in Sizes, unsafe \in BOOLEAN : EncodeCall(obj, size, unsafe)

DoDecode == \E buf \in Inputs : DecodeCall(buf)

Next == Build \/ DoEncode \/ DoDecode

Spec == Init /\ [][Next]_vars

\* the schemas of the parse calls that share a registry
ParseSchemas ==
  {IntS, SRef("R"), SRef("ns.R"), SRef("E"), EnumE, SEnum("R", "", <<"A">>),
   SRecord("R", "", <<SField("a", IntS, Undefined)>>), SRecord("R", "ns", <<>>),
   SUnion(<<NullS, SRef("R")>>)}

ParseNext == /\ nparse < MaxParses
             /\ \E schema \in ParseSchemas, ns \in Namespaces, unwrap \in BOOLEAN :
                   ParseCall(schema, ns, unwrap)

ParseSpec == Init /\ [][ParseNext]_vars

(***************************************************************************)
(* The properties.                                                         *)
(***************************************************************************)
Built == parsed.called /\ parsed.ok
Root == heap[parsed.id]
Encoded == Built /\ last.op = "encode"
Decoded == Built /\ last.op = "decode"

\* equality of values up to the order of the keys of objects
RECURSIVE SameValue(_, _)
SameValue(v, w) ==
  IF v.k # w.k THEN FALSE
  ELSE CASE v.k = "array" ->
              /\ Len(v.items) = Len(w.items)
              /\ \A i \in 1..Len(v.items) : SameValue(v.items[i], w.items[i])
         [] v.k = "object" ->
              /\ {v.keys[i] : i \in 1..Len(v.keys)} = {w.keys[i] : i \in 1..Len(w.keys)}
              /\ Len(v.keys) = Len(w.keys)
              /\ \A i \in 1..Len(v.keys) : SameValue(v.vals[i], Get(w, v.keys[i]))
         [] OTHER -> v = w

\* C1: a value the type accepts is encoded (with the default options) and
\* decoded back to an equal value; outcomes the tap's description leaves
\* open are left aside.
C1_RoundTrip ==
  (Encoded /\ ~last.unsafe /\ last.size = 0 /\ isValid(heap, parsed.id, last.obj) = "true")
    => \/ last.out.kind = "unspecified"
       \/ /\ last.out.kind = "ok"
          /\ LET d == Decode(heap, parsed.id, last.out.bytes)
             IN \/ d.kind = "unspecified"
                \/ d.kind = "ok" /\ SameValue(d.val, last.obj)

\* C2: whatever the initial buffer size, the bytes encode returns are the
\* complete encoding, those it returns with a buffer that is large enough;
\* when the first write overflows, a second buffer is allocated and the
\* node's write runs once more.
C2_OverflowRetry ==
  (Encoded /\ last.out.kind = "ok")
    => LET full == Encode(heap, parsed.id, last.obj, 0, last.unsafe).bytes
           sz == IF last.size = 0 THEN DefaultSize ELSE last.size
       IN /\ last.out.bytes = full
          /\ Len(full) > sz => last.out.buffers = 2 /\ last.out.writes = 2

\* C3: without unsafe, a value that validate rejects makes encode throw
\* 'invalid object' with no buffer allocated, no write and no bytes; with
\* unsafe, validate is not called and the node's write is.
C3_ValidationGate ==
  Encoded =>
    /\ (~last.unsafe /\ isValid(heap, parsed.id, last.obj) = "false")
         => /\ last.out.kind = "throw" /\ last.out.err = "invalid object"
            /\ last.out.buffers = 0 /\ last.out.writes = 0 /\ last.out.bytes = <<>>
    /\ last.unsafe => ~last.out.validated /\ last.out.writes >= 1

C3_Witness ==
  /\ Encoded /\ ~last.unsafe /\ Root.kind = "record"
  /\ isValid(heap, parsed.id, last.obj) = "false"
  /\ last.out.err = "invalid object"

\* the fields of the record built that have a default and are missing in o
MissingWithDefault(o) ==
  {i \in 1..Len(Root.fields) :
     Root.fields[i].dflt # Undefined /\ Get(o, Root.fields[i].name) = Undefined}

\* C4: encoding a value of a record in which a field that has a default is
\* missing succeeds, with the bytes of the value that has the field set to
\* the default.
C4_DefaultSubstitution ==
  (/\ Encoded /\ ~last.unsafe /\ last.size = 0
   /\ Root.kind = "record" /\ last.obj.k = "object"
   /\ isValid(heap, parsed.id, last.obj) = "true")
    => \A i \in MissingWithDefault(last.obj) :
         LET set == Put(last.obj, Root.fields[i].name, Root.fields[i].dflt)
         IN /\ last.out.kind = "ok"
            /\ last.out = Encode(heap, parsed.id, set, 0, FALSE)

\* C7: a wrapped union accepts a value exactly when it is null and null is
\* a branch, or it is a mapping of exactly one key, the key names a branch
\* and that branch accepts the inner value.
C7_WrappedValidate ==
  (Encoded /\ Root.kind = "wrapped")
    => LET o == last.obj
           single == /\ o.k = "object" /\ Len(o.keys) = 1
                     /\ IndexOf(Root.names, o.keys[1]) # 0
                     /\ isValid(heap, Root.types[IndexOf(Root.names, o.keys[1])],
                                o.vals[1]) = "true"
       IN isValid(heap, parsed.id, o) = "true"
            <=> ((o = Null /\ IndexOf(Root.names, "null") # 0) \/ single)

\* the count of branches or symbols an index read by the type built selects from
IndexRange ==
  IF Root.kind = "enum" THEN Len(Root.symbols) ELSE Len(Root.types)

\* C8: decoding bytes whose union branch index or enum index is out of
\* range throws; it returns no value.
C8_IndexErrors ==
  (Decoded /\ Root.kind \in {"wrapped", "unwrapped", "enum"})
    => LET index == readLong(last.buf, 0)
       IN (index.kind = "ok" /\ (index.val < 0 \/ index.val >= IndexRange))
            => last.out.kind = "throw"

\* the discriminator name of a branch: the name of an enum, a fixed or a
\* record, else the name of the kind
Discriminator(t) ==
  CASE t.kind \in {"enum", "fixed", "record"} -> t.name
    [] t.kind = "primitive" -> t.name
    [] OTHER -> t.kind

\* the branches of the union schema parsed, each parsed in its turn
BranchNodes ==
  ParseEach(parsed.schema.branches,
            [heap |-> heap, reg |-> parsed.before, ns |-> parsed.ns, log |-> <<>>],
            parsed.unwrap, <<>>)

UnionOfTypes ==
  /\ parsed.called /\ parsed.schema.f = "sequence" /\ parsed.schema.branches # <<>>
  /\ \A i \in 1..Len(parsed.schema.branches) : parsed.schema.branches[i].f # "sequence"
  /\ BranchNodes.ok

SameDiscriminator ==
  LET bs == BranchNodes
  IN \E i, j \in 1..Len(bs.ids) :
        i < j /\ Discriminator(bs.st.heap[bs.ids[i]]) = Discriminator(bs.st.heap[bs.ids[j]])

RefName ==
  LET ref == parsed.schema.ref
  IN IF IsPrimitive(ref) \/ HasDot(ref) \/ parsed.ns = "" THEN ref
     ELSE parsed.ns \o "." \o ref

C6_Lookup ==
  (parsed.called /\ parsed.schema.f = "string")
    => IF RefName \in DOMAIN parsed.before
       THEN parsed.ok /\ parsed.id = parsed.before[RefName] /\ registry = parsed.before
       ELSE ~parsed.ok /\ parsed.err = "missing name" /\ parsed.id = 0

C6_Twice ==
  (/\ parsed.called /\ parsed.ok /\ parsed.schema.f = "string"
   /\ parsed'.schema = parsed.schema /\ parsed'.ns = parsed.ns)
    => parsed'.ok /\ parsed'.id = parsed.id

IsUnion(t) == t.kind \in {"wrapped", "unwrapped"}

\* the rule for a default: valid for the first branch of a union field, for
\* the type of any other field
Fits(type, value) ==
  IF IsUnion(heap[type]) THEN isValid(heap, heap[type].types[1], value)
  ELSE isValid(heap, type, value)

OwnName ==
  LET nsp == IF parsed.schema.namespace # "" THEN parsed.schema.namespace ELSE parsed.ns
  IN IF nsp # "" THEN nsp \o "." \o parsed.schema.name ELSE parsed.schema.name

RecordSchema ==
  /\ parsed.called /\ parsed.schema.f = "mapping"
  /\ parsed.schema.type = "record" /\ parsed.schema.name # ""

\* the field's type refers to the record itself: directly, through an
\* array, a map or a union
RefersToSelf(i) ==
  LET own == SRef(parsed.schema.name)
      type == parsed.schema.fields[i].type
      node == heap[Root.fields[i].type]
  IN /\ type = own => Root.fields[i].type = parsed.id
     /\ type = SArray(own, "") => node.items = parsed.id
     /\ type = SMap(own, "") => node.values = parsed.id
     /\ type = SUnion(<<NullS, own>>) => node.types[2] = parsed.id

C11_Kept ==
  \A name \in DOMAIN registry :
     name \in DOMAIN registry' /\ registry'[name] = registry[name]

\* C11: over parse calls that share a registry, a fully qualified name once
\* bound to a node is never bound to another: a reference resolves to the
\* same node before and after a second definition of the name.
C11_SingleRegistration == [][C11_Kept]_vars

\* the union schema parsed has a union as a direct branch
NestedUnion ==
  /\ parsed.called /\ parsed.schema.f = "sequence"
  /\ \E i \in 1..Len(parsed.schema.branches) : parsed.schema.branches[i].f = "sequence"

\* C12: a union schema that has a union as a direct branch, be it one branch
\* only, fails to parse, in wrapped and in unwrapped mode.
C12_NestedUnionsRejected == NestedUnion => ~parsed.ok

\* the namespace in effect inside a schema: its own namespace attribute, else
\* that of the schema around it
Scope(schema, ns) ==
  IF schema.f = "mapping" /\ schema.namespace # "" THEN schema.namespace ELSE ns

\* the schemas directly inside the union or record parsed, and their nodes
Children ==
  IF parsed.schema.f = "sequence" THEN parsed.schema.branches
  ELSE [i \in 1..Len(parsed.schema.fields) |-> parsed.schema.fields[i].type]

ChildNodes ==
  IF parsed.schema.f = "sequence" THEN Root.types
  ELSE [i \in 1..Len(Root.fields) |-> Root.fields[i].type]

\* the name a named type or a reference at a position inside a schema of
\* namespace ns goes by
ScopedName(child, ns) ==
  IF child.f = "string" THEN ResolvedName(child.ref, ns) ELSE getQualifiedName(child, ns)

\* C13: each named type or reference directly inside a union or a record goes
\* by the name its own namespace attribute, else the namespace of the schema
\* around it, gives it, whatever the namespaces of the branches or fields
\* before it.
C13_NamespaceScoping ==
  (Built /\ Root.kind \in {"wrapped", "unwrapped", "record"})
    => \A i \in 1..Len(Children) :
          heap[ChildNodes[i]].kind \in {"enum", "fixed", "record"}
            => heap[ChildNodes[i]].name = ScopedName(Children[i], Scope(parsed.schema, parsed.ns))

====
